---------------------------- MODULE Spec2Model ----------------------------
(***************************************************************************)
(* Model of the medanalyser backend: the Flask request handlers of         *)
(* backend/app.py (upload, list-reports, report-detail) and the file       *)
(* pipeline of backend/utils.py (OCR extraction, AI analysis).             *)
(*                                                                         *)
(* Text is a sequence of one-character strings, so that strip(), lower(),  *)
(* len() and the `in` substring test are computed as Python computes them. *)
(* A fixed literal of the code (a message prefix, a fixed answer) is one   *)
(* element of such a sequence.                                             *)
(***************************************************************************)
EXTENDS Integers, Sequences, FiniteSets, TLC

(***************************************************************************)
(* Python string primitives                                                *)
(***************************************************************************)
WHITESPACE == {" ", "\n", "\t"}

UPPER == <<"A", "B", "C", "D", "E", "F", "G", "H", "I", "J", "K", "L", "M",
           "N", "O", "P", "Q", "R", "S", "T", "U", "V", "W", "X", "Y", "Z">>

LOWER == <<"a", "b", "c", "d", "e", "f", "g", "h", "i", "j", "k", "l", "m",
           "n", "o", "p", "q", "r", "s", "t", "u", "v", "w", "x", "y", "z">>

\* str.lower() on one character
LowerChar(c) ==
    IF \E i \in 1..Len(UPPER) : UPPER[i] = c
    THEN LOWER[CHOOSE i \in 1..Len(UPPER) : UPPER[i] = c]
    ELSE c

\* str.lower()
Lower(s) == [i \in 1..Len(s) |-> LowerChar(s[i])]

\* str.strip(): drop leading and trailing whitespace
Strip(s) ==
    LET keep == {i \in 1..Len(s) : s[i] \notin WHITESPACE}
    IN  IF keep = {} THEN <<>>
        ELSE LET lo == CHOOSE i \in keep : \A j \in keep : i <= j
                 hi == CHOOSE i \in keep : \A j \in keep : j <= i
             IN  SubSeq(s, lo, hi)

\* `sub in s`
Contains(s, sub) ==
    \E i \in 0..(Len(s) - Len(sub)) : SubSeq(s, i + 1, i + Len(sub)) = sub

\* str.startswith
StartsWith(s, pre) ==
    Len(s) >= Len(pre) /\ SubSeq(s, 1, Len(pre)) = pre

\* Positions of the character c in s
Positions(s, c) == {i \in 1..Len(s) : s[i] = c}

\* s.rsplit(c, 1): split at the last c; one part when c does not occur
RSplit1(s, c) ==
    IF Positions(s, c) = {} THEN <<s>>
    ELSE LET k == CHOOSE i \in Positions(s, c) : \A j \in Positions(s, c) : j <= i
         IN  <<SubSeq(s, 1, k - 1), SubSeq(s, k + 1, Len(s))>>

\* "sep".join(parts)
RECURSIVE Join(_, _)
Join(parts, sep) ==
    IF parts = <<>> THEN <<>>
    ELSE IF Len(parts) = 1 THEN parts[1]
    ELSE parts[1] \o sep \o Join(Tail(parts), sep)

(***************************************************************************)
(* backend/utils.py                                                        *)
(***************************************************************************)
\* Result of a call: a normal return carrying `value`, or a raised
\* Exception carrying its message `msg`
Return(v) == [raised |-> FALSE, value |-> v, msg |-> <<>>]
Raise(m) == [raised |-> TRUE, value |-> <<>>, msg |-> m]

\* str(i + 1) for the page numbers the model uses
Digit(n) == <<"0", "1", "2", "3", "4", "5", "6", "7", "8", "9">>[n + 1]

\* f"--- Page {i+1} ---\n{page_text.strip()}", i the 0-based page index
PageSection(i, page_text) ==
    <<"-", "-", "-", " ", "P", "a", "g", "e", " ", Digit(i + 1),
      " ", "-", "-", "-", "\n">> \o Strip(page_text)

\* The loop below numbering the sections it keeps instead of the pages
PdfSectionsRenumbered(pages, i) ==
    LET NonEmpty(t) == Strip(t) # <<>>
        kept == SelectSeq(pages, NonEmpty)
    IN  [k \in 1..Len(kept) |-> PageSection(k - 1, kept[k])]

\* The loop of extract_text_from_pdf over pages i..Len(pages)-1 (0-based)
RECURSIVE PdfSections(_, _)
PdfSections(pages, i) ==
    IF i >= Len(pages) THEN <<>>
    ELSE IF Strip(pages[i + 1]) # <<>>
         THEN <<PageSection(i, pages[i + 1])>> \o PdfSections(pages, i + 1)
         ELSE PdfSections(pages, i + 1)

\* ocr: [ok |-> BOOLEAN, pages |-> sequence of page texts, err |-> cause]
extract_text_from_pdf(ocr) ==
    IF ocr.ok
    THEN Return(Join(PdfSections(ocr.pages, 0), <<"\n", "\n">>))
    ELSE Raise(<<"Failed to extract text from PDF: ">> \o ocr.err)

extract_text_from_image(ocr) ==
    IF ocr.ok
    THEN Return(Strip(ocr.pages[1]))
    ELSE Raise(<<"Failed to extract text from image: ">> \o ocr.err)

MIN_ANALYZE_CHARS == 10

INSUFFICIENT_TEXT == <<"Unable to analyze: insufficient text extracted from the document.">>
NO_AI_TEXT == <<"AI analysis could not be generated. Please try again or consult your healthcare provider.">>
TEMPORARILY_UNAVAILABLE == <<"Service temporarily unavailable due to high demand. Please try again in a few moments.">>
CONFIGURATION_ERROR == <<"API configuration error. Please contact support.">>
DOCUMENT_TOO_LARGE == <<"Document is too large to analyze. Please try a shorter document or split it into sections.">>
NO_READABLE_TEXT == <<"No readable text found in the document. Please ensure the image is clear and contains text.">>

W_quota == <<"q", "u", "o", "t", "a">>
W_rate == <<"r", "a", "t", "e">>
W_invalid == <<"i", "n", "v", "a", "l", "i", "d">>
W_api == <<"a", "p", "i">>
W_token == <<"t", "o", "k", "e", "n">>
W_length == <<"l", "e", "n", "g", "t", "h">>

\* The except-branch below with its first two tests in the other order
ClassifyErrorSwapped(e) ==
    LET error_msg == Lower(e)
    IN  IF Contains(error_msg, W_invalid) /\ Contains(error_msg, W_api)
        THEN Return(CONFIGURATION_ERROR)
        ELSE IF Contains(error_msg, W_quota) \/ Contains(error_msg, W_rate)
        THEN Return(TEMPORARILY_UNAVAILABLE)
        ELSE IF Contains(error_msg, W_token) \/ Contains(error_msg, W_length)
        THEN Return(DOCUMENT_TOO_LARGE)
        ELSE Raise(<<"Failed to analyze medical text with AI: ">> \o e)

\* The except-branch of analyze_medical_text_with_ai; e is str(e) of the
\* failure of the generation service
ClassifyError(e) ==
    LET error_msg == Lower(e)
    IN  IF Contains(error_msg, W_quota) \/ Contains(error_msg, W_rate)
        THEN Return(TEMPORARILY_UNAVAILABLE)
        ELSE IF Contains(error_msg, W_invalid) /\ Contains(error_msg, W_api)
        THEN Return(CONFIGURATION_ERROR)
        ELSE IF Contains(error_msg, W_token) \/ Contains(error_msg, W_length)
        THEN Return(DOCUMENT_TOO_LARGE)
        ELSE Raise(<<"Failed to analyze medical text with AI: ">> \o e)

\* Whether analyze_medical_text_with_ai reaches client.models.generate_content
CallsGenerationService(extracted_text) ==
    ~(extracted_text = <<>> \/ Len(Strip(extracted_text)) < MIN_ANALYZE_CHARS)

\* gen: outcome of the generation service: [kind |-> "text", text |-> t],
\* [kind |-> "empty"] (response.text falsy) or [kind |-> "error", msg |-> m]
analyze_medical_text_with_ai(extracted_text, gen) ==
    IF ~CallsGenerationService(extracted_text) THEN Return(INSUFFICIENT_TEXT)
    ELSE IF gen.kind = "text" THEN Return(gen.text)
    ELSE IF gen.kind = "empty" THEN Return(NO_AI_TEXT)
    ELSE ClassifyError(gen.msg)

MIN_TEXT_CHARS == 5

IMAGE_EXTENSIONS == {<<"p", "n", "g">>, <<"j", "p", "g">>,
                     <<"j", "p", "e", "g">>, <<"g", "i", "f">>}

PDF_EXTENSION == <<"p", "d", "f">>

\* The dispatch of process_uploaded_file on file_extension.lower()
ExtractText(file_extension, ocr) ==
    IF Lower(file_extension) = PDF_EXTENSION THEN extract_text_from_pdf(ocr)
    ELSE IF Lower(file_extension) \in IMAGE_EXTENSIONS
         THEN extract_text_from_image(ocr)
         ELSE Raise(<<"Unsupported file type: ">> \o file_extension)

\* The test below without its length check
NoReadableTextLoose(extracted_text) ==
    extracted_text = <<>>

\* The "no text was extracted" test of process_uploaded_file
NoReadableText(extracted_text) ==
    extracted_text = <<>> \/ Len(Strip(extracted_text)) < MIN_TEXT_CHARS

\* What one call of process_uploaded_file does: `raised`/`msg` when it
\* raises, else the returned pair (text, analysis); analyze_calls and
\* gen_calls count the calls it made of analyze_medical_text_with_ai and of
\* the generation service.
process_uploaded_file(file_extension, ocr, gen) ==
    LET ex == ExtractText(file_extension, ocr)
        an == analyze_medical_text_with_ai(ex.value, gen)
        wrap(m) == <<"Failed to process file: ">> \o m
    IN  IF ex.raised
        THEN [raised |-> TRUE, msg |-> wrap(ex.msg), text |-> <<>>,
              analysis |-> <<>>, analyze_calls |-> 0, gen_calls |-> 0]
        ELSE IF NoReadableText(ex.value)
        THEN [raised |-> FALSE, msg |-> <<>>, text |-> <<>>,
              analysis |-> NO_READABLE_TEXT, analyze_calls |-> 0,
              gen_calls |-> 0]
        ELSE [raised |-> an.raised,
              msg |-> IF an.raised THEN wrap(an.msg) ELSE <<>>,
              text |-> IF an.raised THEN <<>> ELSE ex.value,
              analysis |-> an.value,
              analyze_calls |-> 1,
              gen_calls |-> IF CallsGenerationService(ex.value) THEN 1 ELSE 0]

(***************************************************************************)
(* backend/app.py: helpers                                                 *)
(***************************************************************************)
\* The set below with txt added
ALLOWED_EXTENSIONS_WITH_TXT ==
    {<<"p", "d", "f">>, <<"p", "n", "g">>, <<"j", "p", "g">>,
     <<"j", "p", "e", "g">>, <<"g", "i", "f">>, <<"t", "x", "t">>}

ALLOWED_EXTENSIONS ==
    {<<"p", "d", "f">>, <<"p", "n", "g">>, <<"j", "p", "g">>,
     <<"j", "p", "e", "g">>, <<"g", "i", "f">>}

allowed_file(filename) ==
    /\ Contains(filename, <<".">>)
    /\ Lower(RSplit1(filename, ".")[2]) \in ALLOWED_EXTENSIONS

\* werkzeug.utils.secure_filename, step by step -------------------------
\* A character outside ASCII with no ASCII decomposition
NON_ASCII == "<U+62A5>"

DIGITS == {"0", "1", "2", "3", "4", "5", "6", "7", "8", "9"}

\* [A-Za-z0-9_.-]
SAFE_CHARS ==
    {UPPER[i] : i \in 1..Len(UPPER)} \cup {LOWER[i] : i \in 1..Len(LOWER)}
        \cup DIGITS \cup {"_", ".", "-"}

\* The elements of s outside the set drop, in order
RECURSIVE Without(_, _)
Without(s, drop) ==
    IF s = <<>> THEN <<>>
    ELSE (IF Head(s) \in drop THEN <<>> ELSE <<Head(s)>>)
             \o Without(Tail(s), drop)

\* "_".join(s.split()): whitespace runs become one "_", none at the ends
RECURSIVE JoinWords(_)
JoinWords(s) ==
    LET t == Strip(s)
    IN  IF t = <<>> THEN <<>>
        ELSE IF Head(t) \in WHITESPACE THEN JoinWords(Tail(t))
        ELSE IF Len(t) > 1 /\ t[2] \in WHITESPACE
             THEN <<Head(t), "_">> \o JoinWords(Tail(t))
             ELSE <<Head(t)>> \o JoinWords(Tail(t))

\* str.strip("._")
StripDotUnderscore(s) ==
    LET keep == {i \in 1..Len(s) : s[i] \notin {".", "_"}}
    IN  IF keep = {} THEN <<>>
        ELSE LET lo == CHOOSE i \in keep : \A j \in keep : i <= j
                 hi == CHOOSE i \in keep : \A j \in keep : j <= i
             IN  SubSeq(s, lo, hi)

secure_filename(filename) ==
    LET ascii == Without(filename, {NON_ASCII})
        joined(t) == JoinWords(t)
        nosep == [i \in 1..Len(ascii) |->
                    IF ascii[i] = "/" THEN " " ELSE ascii[i]]
        unsafe == {joined(nosep)[i] : i \in 1..Len(joined(nosep))} \ SAFE_CHARS
    IN  StripDotUnderscore(Without(joined(nosep), unsafe))

\* The identity service -------------------------------------------------
USERS == {"userA", "userB"}

\* What the identity service knows of a token: whose it is, whether its
\* signature and expiry verify, whether it has been revoked
TokenInfo(tok) ==
    CASE tok = "tokA" -> [uid |-> "userA", genuine |-> TRUE, revoked |-> FALSE]
      [] tok = "tokB" -> [uid |-> "userB", genuine |-> TRUE, revoked |-> FALSE]
      [] tok = "tokA-revoked" ->
             [uid |-> "userA", genuine |-> TRUE, revoked |-> TRUE]
      [] OTHER -> [uid |-> "", genuine |-> FALSE, revoked |-> FALSE]

\* auth.verify_id_token(id_token, check_revoked): "ok", "revoked" or
\* "invalid"
VerifyIdToken(id_token, check_revoked) ==
    IF id_token = <<>> \/ ~TokenInfo(id_token[1]).genuine THEN "invalid"
    ELSE IF check_revoked /\ TokenInfo(id_token[1]).revoked THEN "revoked"
    ELSE "ok"

VerifyOutcome(id_token, check_revoked) ==
    LET v == VerifyIdToken(id_token, check_revoked)
    IN  IF v = "ok" THEN Return(TokenInfo(id_token[1]).uid)
        ELSE IF v = "revoked" THEN Raise(<<"Token has been revoked">>)
        ELSE Raise(<<"Invalid authentication token: ",
                     "Could not verify token signature.">>)

\* verify_firebase_token without check_revoked
verify_firebase_token_unchecked(id_token) == VerifyOutcome(id_token, FALSE)

verify_firebase_token(id_token) == VerifyOutcome(id_token, TRUE)

\* An Authorization header is <<>> when absent, else <<scheme, token>> with
\* the scheme including its trailing blank
BEARER == <<"Bearer ">>

get_authenticated_user(auth_header) ==
    IF auth_header = <<>> \/ ~StartsWith(auth_header, BEARER)
    THEN Raise(<<"Missing or invalid Authorization header">>)
    ELSE verify_firebase_token(Tail(auth_header))

(***************************************************************************)
(* backend/app.py: state                                                   *)
(***************************************************************************)
VARIABLES
    db,        \* TRUE when firestore.client() succeeded at start-up, else None
    bucket,    \* TRUE when storage.bucket() succeeded at start-up, else None
    tempFiles, \* the files in UPLOAD_FOLDER
    blobs,     \* the blob paths in the storage bucket
    reports,   \* the report documents of the store, in creation order
    pc,        \* position of the request being handled
    req,       \* the request being handled
    loc,       \* the handler's local variables
    log,       \* what the handler did so far on this request
    resp       \* the response

vars == <<db, bucket, tempFiles, blobs, reports, pc, req, loc, log, resp>>

\* Uploads are accepted while the store holds fewer than MaxUploads reports
\* and the bucket fewer than MaxUploads blobs
MaxUploads == 1

\* File names a client submits
FN_a_pdf == <<"a", ".", "p", "d", "f">>
FN_b_PNG == <<"b", ".", "P", "N", "G">>
FN_c_txt == <<"c", ".", "t", "x", "t">>
FN_pdf_exe == <<"a", ".", "p", "d", "f", ".", "e", "x", "e">>
FN_noext == <<"s", "c", "a", "n">>
FN_dot == <<"s", "c", "a", "n", ".">>
FN_dotpdf == <<".", "p", "d", "f">>
FN_cjk_pdf == <<NON_ASCII, ".", "p", "d", "f">>

FileNames ==
    {<<>>, FN_a_pdf, FN_b_PNG, FN_c_txt, FN_pdf_exe, FN_noext, FN_dot,
     FN_dotpdf, FN_cjk_pdf}

\* Authorization headers a client sends
AuthHeaders ==
    {<<>>, <<"Basic ", "tokA">>, <<"Bearer ", "tokA">>, <<"Bearer ", "tokB">>,
     <<"Bearer ", "tokA-revoked">>, <<"Bearer ", "tokForged">>}

\* Outcomes of OCR on the saved file, one page text per page
T_blank == <<" ", "\n">>
T_long == <<"H", "b", " ", "1", "3", ".", "5", " ", "g", "/", "d", "L", "\n">>

OcrFailure == [ok |-> FALSE, pages |-> <<>>, err |-> <<"cannot identify image file">>]

OcrOutcomes ==
    {OcrFailure} \cup
    {[ok |-> TRUE, pages |-> <<t>>, err |-> <<>>] : t \in {T_blank, T_long}}

\* Outcomes of the generation service
E_quota == <<"Q", "u", "o", "t", "a", " ", "e", "x", "c", "e", "e", "d", "e", "d">>
E_generate == <<"g", "e", "n", "e", "r", "a", "t", "e", " ", "f", "a", "i", "l", "e", "d">>
E_invalid_api == <<"I", "n", "v", "a", "l", "i", "d", " ", "A", "P", "I", " ", "k", "e", "y">>
E_invalid_arg == <<"i", "n", "v", "a", "l", "i", "d", " ", "a", "r", "g", "u", "m", "e", "n", "t">>
E_api_rate == <<"A", "P", "I", " ", "i", "n", "v", "a", "l", "i", "d", ":", " ", "r", "a", "t", "e">>
E_token == <<"T", "O", "K", "E", "N", " ", "l", "i", "m", "i", "t">>
E_length == <<"m", "a", "x", " ", "l", "e", "n", "g", "t", "h">>
E_reset == <<"c", "o", "n", "n", "e", "c", "t", "i", "o", "n", " ", "r", "e", "s", "e", "t">>

ErrorMessages ==
    {E_quota, E_generate, E_invalid_api, E_invalid_arg, E_api_rate, E_token,
     E_length, E_reset}

AI_TEXT == <<"Document Type: lab report ...">>

GenOutcomes ==
    {[kind |-> "text", text |-> AI_TEXT, msg |-> <<>>],
     [kind |-> "empty", text |-> <<>>, msg |-> <<>>]} \cup
    {[kind |-> "error", text |-> <<>>, msg |-> m] : m \in ErrorMessages}

NoOcr == [ok |-> FALSE, pages |-> <<>>, err |-> <<>>]
NoGen == [kind |-> "none", text |-> <<>>, msg |-> <<>>]

NoReq ==
    [endpoint |-> "none", too_large |-> FALSE, has_file |-> FALSE,
     filename |-> <<>>, user_id |-> "", report_id |-> <<>>, limit |-> 0]

NoLoc ==
    [auth_header |-> <<>>, user_id |-> "", original_filename |-> <<>>,
     file_extension |-> <<>>, unique_filename |-> <<>>, file_path |-> <<>>,
     ocr |-> NoOcr, gen |-> NoGen, extracted_text |-> <<>>,
     ai_analysis |-> <<>>, blob_path |-> <<>>, report_id |-> <<>>]

\* effects: the side effects performed; excs: the exceptions that reached
\* an except clause, in order, each with the clause that caught it
NoLog == [effects |-> {}, analyze_calls |-> 0, gen_calls |-> 0, excs |-> <<>>]

NoResp ==
    [status |-> 0, error |-> <<>>, success |-> FALSE, filename |-> <<>>,
     extracted_text |-> <<>>, ai_analysis |-> <<>>, report_id |-> <<>>,
     reports |-> <<>>]

ErrorResponse(status, message) ==
    [NoResp EXCEPT !.status = status, !.error = message]

Caught(where, message) == [where |-> where, msg |-> message]

Init ==
    /\ db \in BOOLEAN
    /\ bucket \in BOOLEAN
    /\ tempFiles = {}
    /\ blobs = {}
    /\ reports = <<>>
    /\ pc = "idle"
    /\ req = NoReq
    /\ loc = NoLoc
    /\ log = NoLog
    /\ resp = NoResp

(***************************************************************************)
(* backend/app.py: request handling                                        *)
(***************************************************************************)
Did(effect) == [log EXCEPT !.effects = @ \cup {effect}]

Respond(r) == /\ resp' = r
              /\ pc' = "responded"

\* A request arrives and is routed to its handler ------------------------
ReceiveUpload ==
    /\ pc = "idle"
    /\ Len(reports) < MaxUploads
    /\ Cardinality(blobs) < MaxUploads
    /\ \E big \in BOOLEAN, part \in BOOLEAN, name \in FileNames :
         /\ (~part => name = <<>>)
         /\ req' = [NoReq EXCEPT !.endpoint = "upload", !.too_large = big,
                                 !.has_file = part, !.filename = name]
    /\ pc' = "auth"
    /\ UNCHANGED <<db, bucket, tempFiles, blobs, reports, loc, log, resp>>

\* The ?limit= values a client sends; 0 stands for an absent parameter
LimitParams == {0, 1, 150}

ReceiveList ==
    /\ pc = "idle"
    /\ \E u \in USERS, l \in LimitParams :
         req' = [NoReq EXCEPT !.endpoint = "list", !.user_id = u, !.limit = l]
    /\ pc' = "auth"
    /\ UNCHANGED <<db, bucket, tempFiles, blobs, reports, loc, log, resp>>

\* The id the store gives its n-th document
DocId(n) == <<"doc", Digit(n)>>

ReceiveDetail ==
    /\ pc = "idle"
    /\ \E u \in USERS \cup {""}, n \in 1..(Len(reports) + 1) :
         req' = [NoReq EXCEPT !.endpoint = "detail", !.user_id = u,
                              !.report_id = DocId(n)]
    /\ pc' = "auth"
    /\ UNCHANGED <<db, bucket, tempFiles, blobs, reports, loc, log, resp>>

\* The first step of every handler: get_authenticated_user() -------------
AfterAuth(endpoint) ==
    CASE endpoint = "upload" -> "validate"
      [] endpoint = "list" -> "list"
      [] endpoint = "detail" -> "detail"

Authenticate ==
    /\ pc = "auth"
    /\ \E h \in AuthHeaders :
         LET r == get_authenticated_user(h)
         IN  IF r.raised
             THEN /\ Respond(ErrorResponse(401, r.msg))
                  /\ loc' = [loc EXCEPT !.auth_header = h]
                  /\ log' = [log EXCEPT !.excs = Append(@, Caught("auth", r.msg))]
             ELSE /\ pc' = AfterAuth(req.endpoint)
                  /\ loc' = [loc EXCEPT !.auth_header = h, !.user_id = r.value]
                  /\ UNCHANGED <<log, resp>>
    /\ UNCHANGED <<db, bucket, tempFiles, blobs, reports, req>>

\* upload_file: request.files up to the computed file_path ---------------
TOO_LARGE_MSG ==
    <<"413 Request Entity Too Large: The data value transmitted exceeds the capacity limit.">>

INDEX_ERROR_MSG == <<"list index out of range">>

INVALID_TYPE_MSG == <<"Invalid file type. Allowed types: ", "ALLOWED_EXTENSIONS">>

\* The error of the outermost except clause of upload_file
UploadFailedBody(message) == <<"Upload failed: ">> \o message

\* The outcome of the validation of r: "respond" with a status and error,
\* "raise" with the exception's message, or "ok" with the names derived
UploadValidation(r) ==
    LET none == [kind |-> "ok", status |-> 0, error |-> <<>>,
                 original_filename |-> <<>>, file_extension |-> <<>>]
        original == secure_filename(r.filename)
    IN  IF r.too_large
        THEN [none EXCEPT !.kind = "raise", !.error = TOO_LARGE_MSG]
        ELSE IF ~r.has_file
        THEN [none EXCEPT !.kind = "respond", !.status = 400,
                          !.error = <<"No file provided">>]
        ELSE IF r.filename = <<>>
        THEN [none EXCEPT !.kind = "respond", !.status = 400,
                          !.error = <<"No file selected">>]
        ELSE IF ~allowed_file(r.filename)
        THEN [none EXCEPT !.kind = "respond", !.status = 400,
                          !.error = INVALID_TYPE_MSG]
        ELSE IF Len(RSplit1(original, ".")) < 2
        THEN [none EXCEPT !.kind = "raise", !.error = INDEX_ERROR_MSG]
        ELSE [none EXCEPT !.original_filename = original,
                          !.file_extension = Lower(RSplit1(original, ".")[2])]

\* str(uuid.uuid4()): distinct from the one of every earlier upload
Uuid == <<"uuid", Digit(Cardinality(blobs) + Len(reports) + 1)>>

UploadValidate ==
    /\ pc = "validate"
    /\ LET v == UploadValidation(req)
           unique == Uuid \o <<"_">> \o v.original_filename
       IN  CASE v.kind = "respond" ->
                  /\ Respond(ErrorResponse(v.status, v.error))
                  /\ UNCHANGED <<loc, log>>
             [] v.kind = "raise" ->
                  /\ Respond(ErrorResponse(500, UploadFailedBody(v.error)))
                  /\ log' = [log EXCEPT !.excs = Append(@, Caught("outer", v.error))]
                  /\ UNCHANGED loc
             [] v.kind = "ok" ->
                  /\ pc' = "save"
                  /\ loc' = [loc EXCEPT
                               !.original_filename = v.original_filename,
                               !.file_extension = v.file_extension,
                               !.unique_filename = unique,
                               !.file_path = <<"uploads", "/">> \o unique]
                  /\ UNCHANGED <<log, resp>>
    /\ UNCHANGED <<db, bucket, tempFiles, blobs, reports, req>>

\* file.save(file_path)
UploadSave ==
    /\ pc = "save"
    /\ tempFiles' = tempFiles \cup {loc.file_path}
    /\ log' = Did("temp_written")
    /\ pc' = "process"
    /\ UNCHANGED <<db, bucket, blobs, reports, req, loc, resp>>

\* if os.path.exists(path): os.remove(path)
OsRemove(files, path) == files \ {path}

\* The except clause below without its clean-up
CleanupAfterFailureMissing(files, path) == files

\* The clean-up of the except clause around process_uploaded_file
CleanupAfterFailure(files, path) == OsRemove(files, path)

\* The clean-up before the 200 response
CleanupAfterSuccess(files, path) == OsRemove(files, path)

ProcessingFailedBody(message) == <<"Processing failed: ">> \o message

\* The generation service answers only when it is called
GenOutcomesFor(file_extension, ocr) ==
    LET ex == ExtractText(file_extension, ocr)
    IN  IF ~ex.raised /\ ~NoReadableText(ex.value)
           /\ CallsGenerationService(ex.value)
        THEN GenOutcomes ELSE {NoGen}

UploadProcess ==
    /\ pc = "process"
    /\ \E ocr \in OcrOutcomes :
       \E gen \in GenOutcomesFor(loc.file_extension, ocr) :
         LET r == process_uploaded_file(loc.file_extension, ocr, gen)
             called == [Did("process_invoked") EXCEPT
                          !.analyze_calls = r.analyze_calls,
                          !.gen_calls = r.gen_calls]
         IN  IF r.raised
             THEN /\ tempFiles' = CleanupAfterFailure(tempFiles, loc.file_path)
                  /\ Respond(ErrorResponse(500, ProcessingFailedBody(r.msg)))
                  /\ loc' = [loc EXCEPT !.ocr = ocr, !.gen = gen]
                  /\ log' = [called EXCEPT
                               !.excs = Append(@, Caught("process", r.msg))]
             ELSE /\ pc' = "storage"
                  /\ loc' = [loc EXCEPT !.ocr = ocr, !.gen = gen,
                                        !.extracted_text = r.text,
                                        !.ai_analysis = r.analysis]
                  /\ log' = called
                  /\ UNCHANGED <<tempFiles, resp>>
    /\ UNCHANGED <<db, bucket, blobs, reports, req>>

\* f"medical_reports/{user_id}/{filename}"
BlobPath(filename, user_id) == <<"medical_reports/", user_id, "/">> \o filename

\* upload_to_firebase_storage returning the path although the upload raised
upload_to_firebase_storage_keeps_path(bucketAvail, uploaded, filename, user_id) ==
    IF ~bucketAvail THEN <<>> ELSE BlobPath(filename, user_id)

\* upload_to_firebase_storage; uploaded tells whether blob.upload_from_filename
\* succeeds. Returns the blob path, "" when there is no bucket or the
\* upload raised.
upload_to_firebase_storage(bucketAvail, uploaded, filename, user_id) ==
    IF ~bucketAvail THEN <<>>
    ELSE IF uploaded THEN BlobPath(filename, user_id)
    ELSE <<>>

STORAGE_ERROR_MSG == <<"503 storage backend unavailable">>

UploadStore ==
    /\ pc = "storage"
    /\ \E uploaded \in BOOLEAN :
         /\ (~bucket => uploaded = FALSE)
         /\ loc' = [loc EXCEPT !.blob_path =
                       upload_to_firebase_storage(bucket, uploaded,
                           loc.unique_filename, loc.user_id)]
         /\ blobs' = IF bucket /\ uploaded
                     THEN blobs \cup {BlobPath(loc.unique_filename, loc.user_id)}
                     ELSE blobs
         /\ log' = IF bucket /\ uploaded THEN Did("blob_uploaded")
                   ELSE IF bucket
                   THEN [log EXCEPT !.excs =
                            Append(@, Caught("storage", STORAGE_ERROR_MSG))]
                   ELSE log
    /\ pc' = "persist"
    /\ UNCHANGED <<db, bucket, tempFiles, reports, req, resp>>

\* The document upload_file hands to save_report_to_firestore, as stored:
\* with the id the store assigned
ReportDocument(n) ==
    [report_id |-> DocId(n),
     filename |-> loc.original_filename,
     blob_path |-> loc.blob_path,
     extracted_text |-> loc.extracted_text,
     ai_analysis |-> loc.ai_analysis,
     uploaded_at |-> n,
     user_id |-> loc.user_id]

SAVE_ERROR_MSG ==
    <<"Failed to save report to database: ", "deadline exceeded">>

\* The report_id upload_file ends with: the id of the saved document, ""
\* when there is no database or save_report_to_firestore raised
ReportIdAfterSave(dbAvail, saved, n) ==
    IF dbAvail /\ saved THEN DocId(n) ELSE <<>>

UploadPersist ==
    /\ pc = "persist"
    /\ \E saved \in BOOLEAN :
         /\ (~db => saved = FALSE)
         /\ loc' = [loc EXCEPT !.report_id =
                       ReportIdAfterSave(db, saved, Len(reports) + 1)]
         /\ reports' = IF db /\ saved
                       THEN Append(reports, ReportDocument(Len(reports) + 1))
                       ELSE reports
         /\ log' = IF db /\ saved THEN Did("report_created")
                   ELSE IF db
                   THEN [log EXCEPT !.excs =
                            Append(@, Caught("save", SAVE_ERROR_MSG))]
                   ELSE log
    /\ pc' = "cleanup"
    /\ UNCHANGED <<db, bucket, tempFiles, blobs, req, resp>>

\* The clean-up and the 200 response of upload_file
UploadFinish ==
    /\ pc = "cleanup"
    /\ tempFiles' = CleanupAfterSuccess(tempFiles, loc.file_path)
    /\ Respond([NoResp EXCEPT !.status = 200, !.success = TRUE,
                              !.filename = loc.original_filename,
                              !.extracted_text = loc.extracted_text,
                              !.ai_analysis = loc.ai_analysis,
                              !.report_id = loc.report_id])
    /\ UNCHANGED <<db, bucket, blobs, reports, req, loc, log>>

\* generate_signed_url; signed tells whether blob.generate_signed_url
\* succeeds
generate_signed_url(bucketAvail, blob_path, signed) ==
    IF ~bucketAvail \/ blob_path = <<>> THEN <<>>
    ELSE IF signed THEN <<"https://signed/">> \o blob_path
    ELSE <<>>

\* report_data as the read handlers return it: file_url is added when the
\* document has a blob path
WithFileUrl(doc, signed) ==
    IF doc.blob_path # <<>>
    THEN [k \in DOMAIN doc \cup {"file_url"} |->
            IF k = "file_url"
            THEN generate_signed_url(bucket, doc.blob_path, signed)
            ELSE doc[k]]
    ELSE doc

DEFAULT_LIMIT == 50
MAX_LIMIT == 100

\* request.args.get('limit', 50, type=int), then min(limit, 100)
EffectiveLimit(param) ==
    LET limit == IF param = 0 THEN DEFAULT_LIMIT ELSE param
    IN  IF limit < MAX_LIMIT THEN limit ELSE MAX_LIMIT

\* The documents of user_id's sub-collection, in creation order
ReportsOf(user_id) ==
    LET idx == {i \in 1..Len(reports) : reports[i].user_id = user_id}
        RECURSIVE pick(_)
        pick(i) == IF i > Len(reports) THEN <<>>
                   ELSE (IF i \in idx THEN <<reports[i]>> ELSE <<>>) \o pick(i + 1)
    IN  pick(1)

\* order_by('uploaded_at', DESCENDING)
RECURSIVE OrderByUploadedAtDesc(_)
OrderByUploadedAtDesc(docs) ==
    IF docs = <<>> THEN <<>>
    ELSE LET m == CHOOSE i \in 1..Len(docs) :
                    \A j \in 1..Len(docs) : docs[j].uploaded_at <= docs[i].uploaded_at
             rest == [k \in 1..(Len(docs) - 1) |->
                        IF k < m THEN docs[k] ELSE docs[k + 1]]
         IN  <<docs[m]>> \o OrderByUploadedAtDesc(rest)

\* .limit(n)
Limit(docs, n) == SubSeq(docs, 1, IF Len(docs) < n THEN Len(docs) ELSE n)

STORE_ERROR_MSG == <<"504 Deadline Exceeded">>

FORBIDDEN_MSG == <<"Unauthorized: You can only access your own reports">>
NO_DATABASE_MSG == <<"Database not available">>

\* The checks below with the database check first
ListDecisionDbFirst(authenticated_uid, user_id, dbAvail) ==
    IF ~dbAvail THEN 503
    ELSE IF authenticated_uid # user_id THEN 403
    ELSE 200

\* get_user_reports after authentication: the order of its checks
ListDecision(authenticated_uid, user_id, dbAvail) ==
    IF authenticated_uid # user_id THEN 403
    ELSE IF ~dbAvail THEN 503
    ELSE 200

\* The body below without the exception's text
ListFailedBodyGeneric(message) == <<"Failed to retrieve reports">>

\* The error of the outermost except clause of get_user_reports
ListFailedBody(message) == <<"Failed to retrieve reports: ">> \o message

ListReports ==
    /\ pc = "list"
    /\ LET d == ListDecision(loc.user_id, req.user_id, db)
       IN  CASE d = 403 ->
                  /\ Respond(ErrorResponse(403, FORBIDDEN_MSG))
                  /\ UNCHANGED log
             [] d = 503 ->
                  /\ Respond(ErrorResponse(503, NO_DATABASE_MSG))
                  /\ UNCHANGED log
             [] d = 200 ->
                  \E streamed \in BOOLEAN, signed \in BOOLEAN :
                    LET docs == Limit(OrderByUploadedAtDesc(ReportsOf(req.user_id)),
                                      EffectiveLimit(req.limit))
                    IN  IF streamed
                        THEN /\ Respond([NoResp EXCEPT
                                  !.status = 200, !.success = TRUE,
                                  !.reports = [i \in 1..Len(docs) |->
                                                 WithFileUrl(docs[i], signed)]])
                             /\ log' = Did("store_read")
                        ELSE /\ Respond(ErrorResponse(500,
                                            ListFailedBody(STORE_ERROR_MSG)))
                             /\ log' = [Did("store_read") EXCEPT !.excs =
                                          Append(@, Caught("outer", STORE_ERROR_MSG))]
    /\ UNCHANGED <<db, bucket, tempFiles, blobs, reports, req, loc>>

\* get_report_detail after authentication: the order of its checks
DetailDecision(authenticated_uid, user_id, dbAvail) ==
    IF ~dbAvail THEN 503
    ELSE IF user_id = "" THEN 400
    ELSE IF authenticated_uid # user_id THEN 403
    ELSE 200

\* The error of the outermost except clause of get_report_detail
DetailFailedBody(message) == <<"Failed to retrieve report: ">> \o message

ReportDetail ==
    /\ pc = "detail"
    /\ LET d == DetailDecision(loc.user_id, req.user_id, db)
       IN  CASE d = 503 ->
                  /\ Respond(ErrorResponse(503, NO_DATABASE_MSG))
                  /\ UNCHANGED log
             [] d = 400 ->
                  /\ Respond(ErrorResponse(400, <<"user_id parameter is required">>))
                  /\ UNCHANGED log
             [] d = 403 ->
                  /\ Respond(ErrorResponse(403, FORBIDDEN_MSG))
                  /\ UNCHANGED log
             [] d = 200 ->
                  \E fetched \in BOOLEAN, signed \in BOOLEAN :
                    LET docs == ReportsOf(req.user_id)
                        hit == {i \in 1..Len(docs) : docs[i].report_id = req.report_id}
                    IN  IF ~fetched
                        THEN /\ Respond(ErrorResponse(500,
                                            DetailFailedBody(STORE_ERROR_MSG)))
                             /\ log' = [Did("store_read") EXCEPT !.excs =
                                          Append(@, Caught("outer", STORE_ERROR_MSG))]
                        ELSE IF hit = {}
                        THEN /\ Respond(ErrorResponse(404, <<"Report not found">>))
                             /\ log' = Did("store_read")
                        ELSE /\ Respond([NoResp EXCEPT
                                  !.status = 200, !.success = TRUE,
                                  !.reports = <<WithFileUrl(docs[CHOOSE i \in hit : TRUE],
                                                            signed)>>])
                             /\ log' = Did("store_read")
    /\ UNCHANGED <<db, bucket, tempFiles, blobs, reports, req, loc>>

\* The response is sent; the worker takes the next request
Done ==
    /\ pc = "responded"
    /\ pc' = "idle"
    /\ req' = NoReq
    /\ loc' = NoLoc
    /\ log' = NoLog
    /\ resp' = NoResp
    /\ UNCHANGED <<db, bucket, tempFiles, blobs, reports>>

Next ==
    \/ ReceiveUpload
    \/ ReceiveList
    \/ ReceiveDetail
    \/ Authenticate
    \/ UploadValidate
    \/ UploadSave
    \/ UploadProcess
    \/ UploadStore
    \/ UploadPersist
    \/ UploadFinish
    \/ ListReports
    \/ ReportDetail
    \/ Done

Spec == Init /\ [][Next]_vars

(***************************************************************************)
(* process_uploaded_file on its own: one call, its inputs drawn at the     *)
(* start, its result left in loc and log                                   *)
(***************************************************************************)
\* Largest number of pages of a PDF
MaxPages == 2

P_4 == <<" ", "a", "b", "c", "d", " ">>
P_5 == <<"a", "b", "c", "d", "e">>
P_5s == <<"\n", "a", "b", "c", "d", "e", " ">>
P_9 == <<"a", "b", "c", "d", " ", "e", "f", "g", "h">>
P_10 == <<"a", "b", "c", "d", "e", "f", "g", "h", "i", "j">>

ImageTexts == {<<>>, T_blank, P_4, P_5, P_5s, P_9, P_10, T_long}

PdfPageTexts == {T_blank, P_4, P_5s, T_long}

\* The sequences over S of length at most n
RECURSIVE SeqsUpTo(_, _)
SeqsUpTo(S, n) ==
    IF n = 0 THEN {<<>>}
    ELSE LET shorter == SeqsUpTo(S, n - 1)
         IN  shorter \cup {Append(q, x) : q \in shorter, x \in S}

E_JPG == <<"J", "P", "G">>
E_PDF == <<"P", "D", "F">>
E_txt == <<"t", "x", "t">>

PipelineExtensions ==
    ALLOWED_EXTENSIONS \cup {E_JPG, E_PDF, E_txt, <<>>}

\* What OCR can make of a file of the given kind
OcrOutcomesFor(file_extension) ==
    {OcrFailure} \cup
    {[ok |-> TRUE, pages |-> p, err |-> <<>>] :
        p \in IF Lower(file_extension) = PDF_EXTENSION
              THEN SeqsUpTo(PdfPageTexts, MaxPages)
              ELSE {<<t>> : t \in ImageTexts}}

PipelineInit ==
    /\ db = FALSE
    /\ bucket = FALSE
    /\ tempFiles = {}
    /\ blobs = {}
    /\ reports = <<>>
    /\ pc = "called"
    /\ req = NoReq
    /\ \E ext \in PipelineExtensions :
       \E ocr \in OcrOutcomesFor(ext) :
       \E gen \in GenOutcomes :
         loc = [NoLoc EXCEPT !.file_extension = ext, !.ocr = ocr, !.gen = gen]
    /\ log = NoLog
    /\ resp = NoResp

ProcessUploadedFile ==
    /\ pc = "called"
    /\ LET r == process_uploaded_file(loc.file_extension, loc.ocr, loc.gen)
       IN  /\ pc' = IF r.raised THEN "raised" ELSE "returned"
           /\ loc' = [loc EXCEPT !.extracted_text = r.text,
                                 !.ai_analysis = r.analysis]
           /\ log' = [log EXCEPT
                        !.analyze_calls = r.analyze_calls,
                        !.gen_calls = r.gen_calls,
                        !.excs = IF r.raised
                                 THEN <<Caught("caller", r.msg)>> ELSE <<>>]
    /\ UNCHANGED <<db, bucket, tempFiles, blobs, reports, req, resp>>

PipelineNext == ProcessUploadedFile

PipelineSpec == PipelineInit /\ [][PipelineNext]_vars

(***************************************************************************)
(* extract_text_from_pdf on its own: one call on a PDF whose pages and     *)
(* whose OCR outcome are drawn at the start                                *)
(***************************************************************************)
PdfTexts == {<<>>, T_blank, P_4, P_5, P_5s, P_10, T_long}

\* OCR of a PDF: every page read, or a failure after the pages read so far
PdfOcrOutcomes ==
    {[ok |-> TRUE, pages |-> p, err |-> <<>>] :
        p \in SeqsUpTo(PdfTexts, MaxPages)} \cup
    {[ok |-> FALSE, pages |-> p, err |-> <<"tesseract is not installed">>] :
        p \in SeqsUpTo(PdfTexts, MaxPages - 1)}

PdfInit ==
    /\ db = FALSE
    /\ bucket = FALSE
    /\ tempFiles = {}
    /\ blobs = {}
    /\ reports = <<>>
    /\ pc = "called"
    /\ req = NoReq
    /\ \E ocr \in PdfOcrOutcomes :
         loc = [NoLoc EXCEPT !.file_extension = PDF_EXTENSION, !.ocr = ocr]
    /\ log = NoLog
    /\ resp = NoResp

ExtractTextFromPdf ==
    /\ pc = "called"
    /\ LET r == extract_text_from_pdf(loc.ocr)
       IN  /\ pc' = IF r.raised THEN "raised" ELSE "returned"
           /\ loc' = [loc EXCEPT !.extracted_text = r.value]
           /\ log' = [log EXCEPT
                        !.excs = IF r.raised
                                 THEN <<Caught("caller", r.msg)>> ELSE <<>>]
    /\ UNCHANGED <<db, bucket, tempFiles, blobs, reports, req, resp>>

PdfNext == ExtractTextFromPdf

PdfSpec == PdfInit /\ [][PdfNext]_vars

(***************************************************************************)
(* Properties                                                              *)
(***************************************************************************)
\* The request being answered, by handler
Answered(endpoint) == pc = "responded" /\ req.endpoint = endpoint

\* A credential the gate must refuse: no header, no "Bearer " prefix, or a
\* token the identity service does not vouch for or has revoked
RefusedCredential(h) ==
    \/ h = <<>>
    \/ h[1] # "Bearer "
    \/ Len(h) < 2
    \/ ~TokenInfo(h[2]).genuine
    \/ TokenInfo(h[2]).revoked

\* The subject of a credential that is not refused
SubjectOf(h) == TokenInfo(h[2]).uid

\* The exceptions of this request caught by the except clause `where`
CaughtIn(where) == {i \in 1..Len(log.excs) : log.excs[i].where = where}

\* C1: once process_uploaded_file has been invoked on the saved temporary
\* file of an upload, that file is gone when the response is returned,
\* whatever processing, the storage upload and the report save did.
C1_TempFileRemoved ==
    (Answered("upload") /\ "process_invoked" \in log.effects)
        => /\ "temp_written" \in log.effects
           /\ loc.file_path \notin tempFiles

\* C1 witness: a 200 response after both the storage upload and the report
\* save failed.
C1_Witness ==
    /\ Answered("upload")
    /\ "process_invoked" \in log.effects
    /\ resp.status = 200
    /\ CaughtIn("storage") # {}
    /\ CaughtIn("save") # {}
    /\ tempFiles = {}

\* C2: on every endpoint a request with a refused credential is answered
\* 401 right after the authentication step: the handler goes no further,
\* and nothing was written, uploaded, created or read for it.
C2_Unauthenticated401 ==
    (pc \notin {"idle", "auth"} /\ RefusedCredential(loc.auth_header))
        => /\ pc = "responded"
           /\ resp.status = 401
           /\ log.effects = {}
           /\ tempFiles = {}

\* C2 witness: an upload with a revoked token answered 401.
C2_Witness ==
    /\ Answered("upload")
    /\ loc.auth_header = <<"Bearer ", "tokA-revoked">>
    /\ resp.status = 401
    /\ resp.error = <<"Token has been revoked">>

\* C3: GET /reports/<user_id> with a valid credential of another subject
\* is answered 403 with one fixed body in every state of the store, and
\* the store is not queried.
C3_ListForbidden ==
    (/\ Answered("list")
     /\ ~RefusedCredential(loc.auth_header)
     /\ SubjectOf(loc.auth_header) # req.user_id)
        => /\ resp = ErrorResponse(403, FORBIDDEN_MSG)
           /\ "store_read" \notin log.effects

\* C3 witness: the 403 is given while the store is unavailable.
C3_Witness ==
    /\ Answered("list")
    /\ ~RefusedCredential(loc.auth_header)
    /\ SubjectOf(loc.auth_header) # req.user_id
    /\ ~db
    /\ resp.status = 403

\* C4 (as claimed): GET /report/<report_id> with a valid credential and a
\* user_id parameter naming another subject is answered 403 in every state
\* of the store, the database being unavailable included, and no report is
\* read.
C4_DetailForbidden ==
    (/\ Answered("detail")
     /\ ~RefusedCredential(loc.auth_header)
     /\ req.user_id # ""
     /\ SubjectOf(loc.auth_header) # req.user_id)
        => /\ resp.status = 403
           /\ "store_read" \notin log.effects

\* C5 (as claimed): an authenticated upload whose body exceeds the limit is
\* answered 413 with the body of the 413 handler, and process_uploaded_file
\* is not invoked.
C5_TooLarge413 ==
    (/\ Answered("upload")
     /\ ~RefusedCredential(loc.auth_header)
     /\ req.too_large)
        => /\ resp = ErrorResponse(413, <<"File size exceeds 10MB limit">>)
           /\ "process_invoked" \notin log.effects

\* The file name has no extension, or one outside {pdf, png, jpg, jpeg,
\* gif} compared case-insensitively
DisallowedName(name) ==
    ~\E e \in {<<"p", "d", "f">>, <<"p", "n", "g">>, <<"j", "p", "g">>,
               <<"j", "p", "e", "g">>, <<"g", "i", "f">>} :
        /\ Len(name) > Len(e)
        /\ name[Len(name) - Len(e)] = "."
        /\ Lower(SubSeq(name, Len(name) - Len(e) + 1, Len(name))) = e

\* C6: an authenticated upload, within the size limit, whose file name has
\* no extension or a disallowed one is answered 400; no temporary file is
\* written, no blob uploaded, the pipeline not invoked, no report created.
C6_BadExtension400 ==
    (/\ pc \in {"save", "process", "storage", "persist", "cleanup", "responded"}
     /\ req.endpoint = "upload"
     /\ ~RefusedCredential(loc.auth_header)
     /\ ~req.too_large
     /\ req.has_file
     /\ req.filename # <<>>
     /\ DisallowedName(req.filename))
        => /\ pc = "responded"
           /\ resp.status = 400
           /\ log.effects = {}
           /\ tempFiles = {}

\* C6 witness: a name whose last extension is disallowed although an allowed
\* one precedes it.
C6_Witness ==
    /\ Answered("upload")
    /\ req.filename = FN_pdf_exe
    /\ ~req.too_large
    /\ ~RefusedCredential(loc.auth_header)
    /\ resp.status = 400

\* process_uploaded_file returned normally on this request
ProcessReturned ==
    "process_invoked" \in log.effects /\ CaughtIn("process") = {}

\* C7: once process_uploaded_file has returned normally the upload is
\* answered 200 with the text and analysis it returned; a failed or
\* unavailable storage leaves blob_path empty and the report is still
\* saved when the database works; a failed or unavailable save leaves
\* report_id empty.
C7_DegradedStill200 ==
    (Answered("upload") /\ ProcessReturned)
        => LET r == process_uploaded_file(loc.file_extension, loc.ocr, loc.gen)
               storage_failed == ~bucket \/ CaughtIn("storage") # {}
               save_failed == ~db \/ CaughtIn("save") # {}
           IN  /\ resp.status = 200
               /\ resp.extracted_text = r.text
               /\ resp.ai_analysis = r.analysis
               /\ storage_failed => loc.blob_path = <<>>
               /\ (storage_failed /\ ~save_failed)
                     => /\ "report_created" \in log.effects
                        /\ reports[Len(reports)].blob_path = <<>>
                        /\ resp.report_id = reports[Len(reports)].report_id
               /\ save_failed => /\ resp.report_id = <<>>
                                 /\ "report_created" \notin log.effects

\* C7 witness: the storage upload failed and the report was saved all the
\* same, with an empty blob_path.
C7_Witness ==
    /\ Answered("upload")
    /\ ProcessReturned
    /\ bucket
    /\ CaughtIn("storage") # {}
    /\ "report_created" \in log.effects
    /\ resp.status = 200
    /\ resp.report_id # <<>>

\* C8 (as claimed), for the exceptions raised by the store, the OCR and the
\* generation service: the body of a 500 response never contains the text
\* of the exception behind it.
C8_Generic500 ==
    (pc = "responded" /\ resp.status = 500)
        => \A i \in 1..Len(log.excs) :
             log.excs[i].msg \notin {TOO_LARGE_MSG, INDEX_ERROR_MSG}
                => ~Contains(resp.error, log.excs[i].msg)

\* The fixed prefix of the 500 body of each except clause
Prefix500(endpoint, where) ==
    CASE where = "process" -> <<"Processing failed: ">>
      [] where = "outer" /\ endpoint = "upload" -> <<"Upload failed: ">>
      [] where = "outer" /\ endpoint = "list" -> <<"Failed to retrieve reports: ">>
      [] where = "outer" /\ endpoint = "detail" -> <<"Failed to retrieve report: ">>

\* C8 (amended): no exception escapes a handler. An authentication
\* exception is answered 401 with the exception's text; storage and save
\* exceptions are swallowed; a processing exception (inner clause) and any
\* other exception (outermost clause) are answered 500 with a fixed prefix
\* followed by the text of the exception; and a 500 has no other origin.
C8_ExceptionResponses ==
    pc = "responded" =>
        LET n == Len(log.excs)
            last == log.excs[n]
        IN  /\ \A i \in 1..n :
                 log.excs[i].where \in {"auth", "process", "outer"} => i = n
            /\ (n > 0 /\ last.where = "auth")
                  => resp.status = 401 /\ resp.error = last.msg
            /\ (n > 0 /\ last.where \in {"process", "outer"})
                  => /\ resp.status = 500
                     /\ resp.error = Prefix500(req.endpoint, last.where) \o last.msg
            /\ resp.status = 500 => (n > 0 /\ last.where \in {"process", "outer"})

\* C8 witness: the outermost clause of get_user_reports answers a failure
\* of the store query.
C8_Witness ==
    /\ Answered("list")
    /\ CaughtIn("outer") # {}
    /\ resp.status = 500
    /\ resp.error = <<"Failed to retrieve reports: ">> \o STORE_ERROR_MSG

\* The text the extractor hands to process_uploaded_file on this call
Extracted == ExtractText(loc.file_extension, loc.ocr)

\* C9: for a supported extension whose extraction succeeds, a text that is
\* empty or shorter than 5 characters once trimmed makes the call return
\* ("", the fixed "No readable text found" message) with neither the
\* analysis function nor the generation service invoked; a text of 5 or
\* more trimmed characters makes it invoke the analysis function exactly
\* once and, when that returns, return the text as extracted together with
\* the analysis.
C9_ShortCircuit ==
    (pc \in {"returned", "raised"} /\ ~Extracted.raised)
        => IF Len(Strip(Extracted.value)) < 5
           THEN /\ pc = "returned"
                /\ loc.extracted_text = <<>>
                /\ loc.ai_analysis = NO_READABLE_TEXT
                /\ log.analyze_calls = 0
                /\ log.gen_calls = 0
           ELSE /\ log.analyze_calls = 1
                /\ log.gen_calls <= 1
                /\ pc = "returned" =>
                     /\ loc.extracted_text = Extracted.value
                     /\ loc.ai_analysis =
                          analyze_medical_text_with_ai(Extracted.value, loc.gen).value

\* C9 witness: an image whose OCR text has 4 characters between blanks.
C9_Witness ==
    /\ pc = "returned"
    /\ loc.file_extension = E_JPG
    /\ loc.ocr.ok
    /\ loc.ocr.pages = <<P_4>>
    /\ loc.ai_analysis = NO_READABLE_TEXT
    /\ log.analyze_calls = 0

\* The lower-cased message contains the signal word
Signal(message, word) == Contains(Lower(message), word)

\* C10: when the generation service fails, 'quota' or 'rate' in the
\* lower-cased message gives the "temporarily unavailable" analysis;
\* otherwise 'invalid' with 'api' gives "configuration error"; otherwise
\* 'token' or 'length' gives "document too large"; each as a normal result,
\* the upload ending 200. Any other failure is raised as "Failed to analyze
\* medical text with AI" with the cause, and the upload ends 500.
C10_FailureMapping ==
    (Answered("upload") /\ loc.gen.kind = "error")
        => LET m == loc.gen.msg
               Ok(analysis) == /\ resp.status = 200
                               /\ resp.ai_analysis = analysis
           IN  /\ log.gen_calls = 1
               /\ IF Signal(m, W_quota) \/ Signal(m, W_rate)
                  THEN Ok(TEMPORARILY_UNAVAILABLE)
                  ELSE IF Signal(m, W_invalid) /\ Signal(m, W_api)
                  THEN Ok(CONFIGURATION_ERROR)
                  ELSE IF Signal(m, W_token) \/ Signal(m, W_length)
                  THEN Ok(DOCUMENT_TOO_LARGE)
                  ELSE /\ resp.status = 500
                       /\ Contains(resp.error,
                            <<"Failed to analyze medical text with AI: ">> \o m)

\* C10 witness: a message carrying 'invalid', 'api' and 'rate' is answered
\* 200 with the "temporarily unavailable" analysis.
C10_Witness ==
    /\ Answered("upload")
    /\ loc.gen.kind = "error"
    /\ loc.gen.msg = E_api_rate
    /\ resp.status = 200
    /\ resp.ai_analysis = TEMPORARILY_UNAVAILABLE

\* The marker of page n, n counted from 1, with its line break
PageMarker(n) ==
    <<"-", "-", "-", " ", "P", "a", "g", "e", " ", Digit(n),
      " ", "-", "-", "-", "\n">>

\* The text the claim gives for the first n pages: each page whose trimmed
\* text is not empty adds, after a blank line when something precedes it,
\* its marker and its trimmed text
RECURSIVE ExpectedPdfText(_, _)
ExpectedPdfText(pages, n) ==
    IF n = 0 THEN <<>>
    ELSE LET before == ExpectedPdfText(pages, n - 1)
             t == Strip(pages[n])
         IN  IF t = <<>> THEN before
             ELSE (IF before = <<>> THEN <<>> ELSE before \o <<"\n", "\n">>)
                     \o PageMarker(n) \o t

\* C11: for a PDF of N pages extract_text_from_pdf returns the pages whose
\* OCR text is not empty once trimmed, each as '--- Page i ---' with its
\* own 1-based index i and its trimmed text, in page order, joined by a
\* blank line; empty pages add nothing and renumber nothing; all pages
\* empty gives the empty string; and when OCR or conversion fails the call
\* raises and returns no text.
C11_PdfJoin ==
    /\ pc = "returned" =>
         /\ loc.ocr.ok
         /\ loc.extracted_text = ExpectedPdfText(loc.ocr.pages, Len(loc.ocr.pages))
         /\ (\A i \in 1..Len(loc.ocr.pages) : Strip(loc.ocr.pages[i]) = <<>>)
               => loc.extracted_text = <<>>
    /\ pc = "raised" =>
         /\ ~loc.ocr.ok
         /\ loc.extracted_text = <<>>
         /\ Len(log.excs) = 1
    /\ pc \in {"returned", "raised"} => (pc = "raised" <=> ~loc.ocr.ok)

\* C11 witness: a blank first page followed by a page with text, which
\* keeps the number 2.
C11_Witness ==
    /\ pc = "returned"
    /\ loc.ocr.pages = <<T_blank, P_5s>>
    /\ loc.extracted_text = PageMarker(2) \o P_5

\* C12 (as claimed): for an authenticated upload within the size limit
\* whose submitted file name passes validation, the extension derived from
\* the sanitized name is the one validation checked, a member of {pdf, png,
\* jpg, jpeg, gif}: the upload does not end in a 500 before processing, nor
\* in "Unsupported file type".
C12_ValidatedExtensionKept ==
    (/\ pc \in {"save", "process", "storage", "persist", "cleanup", "responded"}
     /\ req.endpoint = "upload"
     /\ ~RefusedCredential(loc.auth_header)
     /\ ~req.too_large
     /\ req.has_file
     /\ req.filename # <<>>
     /\ ~DisallowedName(req.filename))
        => /\ loc.file_extension = Lower(RSplit1(req.filename, ".")[2])
           /\ ~(/\ pc = "responded"
                /\ resp.status = 500
                /\ "process_invoked" \notin log.effects)
           /\ ~Contains(resp.error, <<"Unsupported file type: ">>)

=============================================================================
